---- MODULE Spec2Model ----
(***************************************************************************)
(* pullrequest-init: the GitHub handler that downloads a pull request to   *)
(* a directory (Download) and reconciles the possibly edited directory     *)
(* back to the provider (Upload), cmd/pullrequest-init.                    *)
(*                                                                         *)
(* The provider is the state behind the go-github client: the labels of    *)
(* the pull request and its issue comments.  The directory D holds         *)
(* D/pr.json, D/github/pr.json and D/github/comments/<id>.json.            *)
(*                                                                         *)
(* pkg/pod: the entrypoint cache, which looks the entrypoint of an image   *)
(* up in the registry and keeps it by digest.                              *)
(***************************************************************************)
EXTENDS Integers, Sequences, FiniteSets, TLC

(***************************************************************************)
(* Bounds of the model.                                                    *)
(***************************************************************************)
MaxInitComments == 2    \* comments on the pull request before the first step
MaxEdits == 2           \* edits of D/pr.json by the pipeline steps
MaxExt == 1             \* changes made on the provider by other writers
MaxRuns == 2            \* Upload runs (a run and its re-run)
MaxDownloads == 2       \* runs of Download, from the first that succeeds
MaxPushes == 2          \* pushes that move a tag in the registry
MaxSegments == 5        \* segments in the path of a pull-request URL

Texts == {"a", "b"}
InitLabelChoices == {<< >>, <<"wip", "bug", "wip">>}
EditLabelChoices == {<< >>, <<"bug", "wip">>}
FirstFreshID == MaxInitComments + 1
\* The IDs an editor gives a comment it adds: none (0), the ID of a comment
\* that exists, existed or will exist on the provider.
AddIDs == 0..FirstFreshID

VARIABLES
    ghLabels,          \* provider: pr.Labels, the label names in order
    ghComments,        \* provider: the issue comments of the PR, in order
    nextID,            \* provider: the identity its next new comment gets
    prFile,            \* D/pr.json
    rawPRFile,         \* D/github/pr.json
    rawCommentFiles,   \* D/github/comments/<id>.json, by id
    pc,                \* position of the Upload run
    pr,                \* Upload: the decoded record
    desiredComments,   \* Upload: map ID -> on-disk comment
    existingComments,  \* Upload: the list ListComments returned
    idx,               \* Upload: position in existingComments
    err,               \* what the last Download / Upload returned
    calls,             \* provider calls of the current Upload run
    dl,                \* history: what the last Download that succeeded saw and wrote
    dlRun,             \* history: the last run of Download
    runStart,          \* history: provider and D/pr.json when the run began
    prev,              \* history: the previous Upload run
    runs, edits, ext,
    rawURL,            \* the pull-request URL the process was given
    parsed,            \* what parseGitHubURL returned for rawURL
    handler,           \* what NewGitHubHandler returned for rawURL
    lru,               \* entrypoint cache: entries, the most recently used first
    registry,          \* registry: the digest the tag of each repository points to
    lastGet,           \* history: the last Get of the entrypoint cache
    resolved,          \* history: what lookups in the registry have resolved
    pushes             \* pushes to the registry so far

provVars == <<ghLabels, ghComments, nextID>>
fileVars == <<prFile, rawPRFile, rawCommentFiles>>
runVars == <<pc, pr, desiredComments, existingComments, idx, calls>>
histVars == <<dl, dlRun, runStart, prev>>
urlVars == <<rawURL, parsed, handler>>
cacheVars == <<lru, registry, lastGet, resolved, pushes>>
vars == <<ghLabels, ghComments, nextID, prFile, rawPRFile, rawCommentFiles,
          pc, pr, desiredComments, existingComments, idx, err, calls,
          dl, dlRun, runStart, prev, runs, edits, ext, rawURL, parsed, handler,
          lru, registry, lastGet, resolved, pushes>>

(***************************************************************************)
(* Files.  A file is absent, holds a JSON document, or was created and     *)
(* left empty by an Encode that failed.                                    *)
(***************************************************************************)
NoFile == [kind |-> "none"]
Truncated == [kind |-> "truncated"]
JSONFile(v) == [kind |-> "json", val |-> v]

WriteOutcomes == {"ok", "create", "encode"}

\* Mutation: the file is opened for appending instead of created anew.
writeJSONAppend(old, v, outcome) ==
    CASE outcome = "ok" -> IF old.kind = "json" THEN JSONFile(<<old.val, v>>) ELSE JSONFile(v)
      [] outcome = "create" -> old
      [] outcome = "encode" -> old

\* writeJSON: os.Create truncates the file, then Encode writes the document.
writeJSON(old, v, outcome) ==
    CASE outcome = "ok" -> JSONFile(v)
      [] outcome = "create" -> old
      [] outcome = "encode" -> Truncated

\* readJSON: os.Open, then Decode; TRUE when it returns no error.
readJSONOk(f) == f.kind = "json"

RawPRPath == "D/github/pr.json"
RawCommentPath(id) == "D/github/comments/" \o ToString(id) \o ".json"

None == [kind |-> "none"]

(***************************************************************************)
(* Pull-request URLs.  A URL is the sequence of its pieces: the scheme,    *)
(* "://", the host, and then the path, in which "/" separates segments.     *)
(***************************************************************************)
URLPrefixes == {<<"https", "://", "github.com">>, <<"http", "://", "github.com">>,
                <<"ssh", "://", "github.com">>, <<"https", "://", "example.com">>}

\* What the i-th segment of the path of a URL can be.
SegmentChoices(i) ==
    CASE i = 1 -> {"owner", "foo"}
      [] i = 2 -> {"repo", "bar"}
      [] i = 3 -> {"pulls", "pull", "foo"}
      [] i = 4 -> {"1", "foo", ""}
      [] OTHER -> {"files", ""}

\* The paths of n segments, each segment after a "/".
RECURSIVE PathsOf(_)
PathsOf(n) ==
    IF n = 0 THEN {<< >>}
    ELSE {p \o <<"/">> \o (IF seg = "" THEN << >> ELSE <<seg>>) :
             p \in PathsOf(n - 1), seg \in SegmentChoices(n)}

\* The URLs the process is given: the empty string, and every prefix
\* followed by a path of up to MaxSegments segments.
URLs == {<< >>} \cup
        {pre \o p : pre \in URLPrefixes,
                    p \in UNION {PathsOf(n) : n \in 0..MaxSegments}}

\* The HTML URL of the pull request of the tests.
PRURL == <<"https", "://", "github.com", "/", "foo", "/", "bar", "/", "pull", "/", "1">>

\* url.Parse(rawURL).Path: what follows the scheme and the host.
URLPath(raw) ==
    IF Len(raw) >= 3 /\ raw[2] = "://" THEN SubSeq(raw, 4, Len(raw)) ELSE raw

\* strings.Split(s, sep): the pieces between the separators, empty ones kept.
RECURSIVE Split(_, _)
Split(s, sep) ==
    IF s = << >> THEN <<"">>
    ELSE LET rest == Split(Tail(s), sep)
         IN  IF Head(s) = sep THEN <<"">> \o rest
             ELSE <<Head(s) \o rest[1]>> \o Tail(rest)

\* strconv.Atoi: the number a decimal numeral stands for, or an error.
Atoi(s) ==
    CASE s = "1" -> [err |-> "nil", val |-> 1]
      [] s = "2" -> [err |-> "nil", val |-> 2]
      [] OTHER -> [err |-> "syntax", val |-> 0]

HandlerError(e) == [kind |-> "error", err |-> e]

\* Mutation: a URL with more than five parts is accepted too.
NewGitHubHandlerLenient(raw) ==
    LET split == Split(URLPath(raw), "/")
    IN  IF Len(split) < 5 THEN HandlerError("could not determine PR from URL")
        ELSE IF Atoi(split[5]).err # "nil" THEN HandlerError("error parsing PR number")
        ELSE [kind |-> "handler", owner |-> split[2], repo |-> split[3],
              prNum |-> Atoi(split[5]).val]

\* Mutation: the error of strconv.Atoi is dropped.
NewGitHubHandlerNoAtoiCheck(raw) ==
    LET split == Split(URLPath(raw), "/")
    IN  IF Len(split) # 5 THEN HandlerError("could not determine PR from URL")
        ELSE [kind |-> "handler", owner |-> split[2], repo |-> split[3],
              prNum |-> Atoi(split[5]).val]

\* NewGitHubHandler: split is indexed from 0 in the code, from 1 here.
NewGitHubHandler(raw) ==
    LET split == Split(URLPath(raw), "/")
    IN  IF Len(split) # 5 THEN HandlerError("could not determine PR from URL")
        ELSE IF Atoi(split[5]).err # "nil" THEN HandlerError("error parsing PR number")
        ELSE [kind |-> "handler", owner |-> split[2], repo |-> split[3],
              prNum |-> Atoi(split[5]).val]

ParseError(e) == [kind |-> "error", err |-> e, owner |-> "", repo |-> "", pr |-> 0]

\* Mutation: the resolver insists on the exact shape, as the handler does.
parseGitHubURLStrict(raw) ==
    LET split == Split(URLPath(raw), "/")
    IN  IF raw = << >> THEN ParseError("empty URL")
        ELSE IF Len(split) # 5 THEN ParseError("too few path segments")
        ELSE IF Atoi(split[5]).err # "nil" THEN ParseError("PR number is not a number")
        ELSE [kind |-> "ok", err |-> "nil", owner |-> split[2], repo |-> split[3],
              pr |-> Atoi(split[5]).val]

\* parseGitHubURL, the lenient resolver: owner, repository and number by
\* position; the fourth segment and whatever follows the number are ignored.
parseGitHubURL(raw) ==
    LET split == Split(URLPath(raw), "/")
    IN  IF raw = << >> THEN ParseError("empty URL")
        ELSE IF Len(split) < 5 THEN ParseError("too few path segments")
        ELSE IF Atoi(split[5]).err # "nil" THEN ParseError("PR number is not a number")
        ELSE [kind |-> "ok", err |-> "nil", owner |-> split[2], repo |-> split[3],
              pr |-> Atoi(split[5]).val]

\* The resolver is applied to the URL.
ParseURL ==
    /\ parsed.kind = "none"
    /\ parsed' = parseGitHubURL(rawURL)
    /\ UNCHANGED <<provVars, fileVars, runVars, err, histVars, runs, edits, ext,
                   rawURL, handler, cacheVars>>

\* main: the handler is constructed from the URL.
NewHandler ==
    /\ handler.kind = "none"
    /\ handler' = NewGitHubHandler(rawURL)
    /\ UNCHANGED <<provVars, fileVars, runVars, err, histVars, runs, edits, ext,
                   rawURL, parsed, cacheVars>>

(***************************************************************************)
(* The entrypoint cache.                                                   *)
(***************************************************************************)
cacheSize == 1024

Repos == {"gcr.io/a", "gcr.io/b"}
Digests == {"sha256:1", "sha256:2"}     \* the images the registry has
Tag == "latest"

\* The image names Get is called with: a bare repository, a repository with
\* a tag, a repository with a digest, a digest of no image, and a name that
\* is no reference.
ImageNames ==
    {<<"gcr.io/a">>, <<"gcr.io/b", ":", Tag>>, <<"gcr.io/a", "@", "sha256:9">>, << >>}
    \cup {<<r, "@", d>> : r \in Repos, d \in Digests}

\* name.ParseReference: a digest reference, a tag reference (the default tag
\* when the name has none), or an error.
ParseReference(imageName) ==
    IF Len(imageName) = 3 /\ imageName[2] = "@"
    THEN [kind |-> "digest", repo |-> imageName[1], id |-> imageName[3]]
    ELSE IF Len(imageName) = 3 /\ imageName[2] = ":"
    THEN [kind |-> "tag", repo |-> imageName[1], id |-> imageName[3]]
    ELSE IF Len(imageName) = 1
    THEN [kind |-> "tag", repo |-> imageName[1], id |-> Tag]
    ELSE [kind |-> "error", repo |-> "", id |-> ""]

\* name.Digest.String(): the repository, "@" and the digest.
DigestString(repo, digest) == repo \o "@" \o digest

\* The config file of an image: its Entrypoint and its Cmd.
ConfigFile(digest) ==
    IF digest = "sha256:1" THEN [Entrypoint |-> <<"/bin/run">>, Cmd |-> <<"-v">>]
    ELSE [Entrypoint |-> << >>, Cmd |-> <<"sh">>]

\* remote.Image: the image a reference leads to in the registry reg.
RemoteImage(ref, reg) ==
    IF ref.kind = "tag" THEN [err |-> "nil", digest |-> reg[ref.repo]]
    ELSE IF ref.id \in Digests THEN [err |-> "nil", digest |-> ref.id]
    ELSE [err |-> "manifest", digest |-> ""]

\* imageData: the entrypoint (the Cmd when the image has no Entrypoint) and
\* the digest reference of the image; `outcome` says which call fails.
imageData(ref, img, outcome) ==
    LET cfg == ConfigFile(img.digest)
        ep == IF Len(cfg.Entrypoint) = 0 THEN cfg.Cmd ELSE cfg.Entrypoint
    IN  IF outcome \in {"digest", "config", "newdigest"}
        THEN [err |-> outcome, ep |-> << >>, d |-> ""]
        ELSE [err |-> "nil", ep |-> ep, d |-> DigestString(ref.repo, img.digest)]

\* lru.Cache: Get moves the entry to the front; Add puts a new entry at the
\* front and drops the oldest one when the cache is over its size.
lruKeys(cache) == {cache[i].key : i \in DOMAIN cache}
lruValue(cache, key) == cache[CHOOSE i \in DOMAIN cache : cache[i].key = key].value
lruWithout(cache, key) == SelectSeq(cache, LAMBDA e : e.key # key)
lruGet(cache, key) == <<[key |-> key, value |-> lruValue(cache, key)]>> \o lruWithout(cache, key)
lruAdd(cache, key, value) ==
    LET c == <<[key |-> key, value |-> value]>> \o lruWithout(cache, key)
    IN  IF Len(c) > cacheSize THEN SubSeq(c, 1, cacheSize) ELSE c

\* Get looks in the cache only for a digest reference.
CacheHit(ref, cache) ==
    ref.kind = "digest" /\ DigestString(ref.repo, ref.id) \in lruKeys(cache)

\* Mutation: the cache is populated before the error of imageData is looked at.
CacheAfterAlways(cache, data) == lruAdd(cache, data.d, data.ep)

\* The cache after imageData returned: populated unless it returned an error.
CacheAfter(cache, data) ==
    IF data.err # "nil" THEN cache ELSE lruAdd(cache, data.d, data.ep)

GetOutcomes == {"ok", "keychain", "manifest", "digest", "config", "newdigest"}

\* What Get returned, as the history keeps it.
Returned(imageName, ref, hit, contacted, e, cmd, d) ==
    [kind |-> "get", name |-> imageName, ref |-> ref, hit |-> hit,
     contacted |-> contacted, err |-> e, cmd |-> cmd, digest |-> d, before |-> lru,
     registry |-> registry]

\* entrypointCache.Get; `outcome` says which call of the lookup fails.
Get(imageName, outcome) ==
    LET ref == ParseReference(imageName)
        img == RemoteImage(ref, registry)
        data == imageData(ref, img, outcome)
    IN  /\ IF ref.kind = "error"
           THEN /\ outcome = "ok"
                /\ lastGet' = Returned(imageName, ref, FALSE, FALSE, "parse", << >>, "")
                /\ UNCHANGED <<lru, resolved>>
           ELSE IF CacheHit(ref, lru)
           THEN /\ outcome = "ok"
                /\ lru' = lruGet(lru, DigestString(ref.repo, ref.id))
                /\ lastGet' = Returned(imageName, ref, TRUE, FALSE, "nil",
                                       lruValue(lru, DigestString(ref.repo, ref.id)),
                                       DigestString(ref.repo, ref.id))
                /\ UNCHANGED resolved
           ELSE IF outcome = "keychain"
           THEN /\ lastGet' = Returned(imageName, ref, FALSE, FALSE, "keychain", << >>, "")
                /\ UNCHANGED <<lru, resolved>>
           ELSE IF outcome = "manifest" \/ img.err # "nil"
           THEN /\ outcome \in {"ok", "manifest"}
                /\ outcome = "ok" => img.err # "nil"
                /\ lastGet' = Returned(imageName, ref, FALSE, TRUE, "manifest", << >>, "")
                /\ UNCHANGED <<lru, resolved>>
           ELSE /\ lru' = CacheAfter(lru, data)
                /\ lastGet' = Returned(imageName, ref, FALSE, TRUE, data.err,
                                       data.ep, data.d)
                /\ resolved' = IF data.err = "nil"
                               THEN resolved \cup {[key |-> data.d, value |-> data.ep]}
                               ELSE resolved
        /\ UNCHANGED <<provVars, fileVars, runVars, err, histVars, runs, edits, ext,
                       urlVars, registry, pushes>>

\* A push moves the tag of a repository to another image.
Push(repo, digest) ==
    /\ pushes < MaxPushes
    /\ registry[repo] # digest
    /\ registry' = [registry EXCEPT ![repo] = digest]
    /\ pushes' = pushes + 1
    /\ UNCHANGED <<provVars, fileVars, runVars, err, histVars, runs, edits, ext,
                   urlVars, lru, lastGet, resolved>>

(***************************************************************************)
(* The provider.                                                           *)
(***************************************************************************)
Provider == [labels |-> ghLabels, comments |-> ghComments]

\* PullRequests.Get: the payload of the pull request.
GetPullRequest ==
    [ID |-> 1,
     Head |-> [CloneURL |-> "https://github.com/baz/bar", Ref |-> "feature", SHA |-> "2"],
     Base |-> [CloneURL |-> "https://github.com/foo/bar", Ref |-> "master", SHA |-> "1"],
     Labels |-> ghLabels]

IDsOf(cs) == {cs[i].id : i \in DOMAIN cs}
IndexOfID(cs, id) == CHOOSE i \in DOMAIN cs : cs[i].id = id

\* Issues.CreateComment: the provider appends a comment under a new identity
\* (the fake server counts the comments of the PR, which is new as long as
\* none was deleted; the provider never reuses an identity).
CreateComment(cs, id, body) == Append(cs, [id |-> id, body |-> body, user |-> "bot"])

\* Issues.EditComment: only the body of the comment changes.
EditComment(cs, id, body) ==
    [i \in DOMAIN cs |-> IF cs[i].id = id THEN [cs[i] EXCEPT !.body = body] ELSE cs[i]]

\* Issues.DeleteComment: the comment with that identity is removed.
DeleteComment(cs, id) == SelectSeq(cs, LAMBDA c : c.id # id)

\* Issues.ReplaceLabelsForIssue: the label list becomes the payload.
ReplaceLabels(names) == names

\* A provider call as the history records it: what was sent (op, id, body,
\* labels), whether it succeeded, the on-disk ID it was issued for (key) and,
\* for a CreateComment that succeeded, the identity the provider assigned
\* (id; nothing is sent there).
Call(op, key, id, body, labels, ok) ==
    [op |-> op, key |-> key, id |-> id, body |-> body, labels |-> labels, ok |-> ok]

(***************************************************************************)
(* Download.                                                               *)
(***************************************************************************)
\* Mutation: the raw file of a comment is named after its position.
GenericPRRawByPosition(gpr, ic) ==
    [Type |-> "github",
     ID |-> gpr.ID,
     Head |-> [Repo |-> gpr.Head.CloneURL, Branch |-> gpr.Head.Ref, SHA |-> gpr.Head.SHA],
     Base |-> [Repo |-> gpr.Base.CloneURL, Branch |-> gpr.Base.Ref, SHA |-> gpr.Base.SHA],
     Labels |-> [i \in DOMAIN gpr.Labels |-> [Text |-> gpr.Labels[i]]],
     Comments |-> [i \in DOMAIN ic |->
                     [Author |-> ic[i].user, Text |-> ic[i].body,
                      ID |-> ic[i].id, Raw |-> RawCommentPath(i)]],
     Raw |-> RawPRPath]

\* Mutation: a label that the record already has is not appended again.
GenericPRUniqueLabels(gpr, ic) ==
    LET first == SelectSeq([i \in DOMAIN gpr.Labels |-> i],
                           LAMBDA i : \A j \in 1..(i - 1) : gpr.Labels[j] # gpr.Labels[i])
    IN  [Type |-> "github",
         ID |-> gpr.ID,
         Head |-> [Repo |-> gpr.Head.CloneURL, Branch |-> gpr.Head.Ref, SHA |-> gpr.Head.SHA],
         Base |-> [Repo |-> gpr.Base.CloneURL, Branch |-> gpr.Base.Ref, SHA |-> gpr.Base.SHA],
         Labels |-> [i \in DOMAIN first |-> [Text |-> gpr.Labels[first[i]]]],
         Comments |-> [i \in DOMAIN ic |->
                         [Author |-> ic[i].user, Text |-> ic[i].body,
                          ID |-> ic[i].id, Raw |-> RawCommentPath(ic[i].id)]],
         Raw |-> RawPRPath]

\* The generic record built from the PR payload and the comment list.
GenericPR(gpr, ic) ==
    [Type |-> "github",
     ID |-> gpr.ID,
     Head |-> [Repo |-> gpr.Head.CloneURL, Branch |-> gpr.Head.Ref, SHA |-> gpr.Head.SHA],
     Base |-> [Repo |-> gpr.Base.CloneURL, Branch |-> gpr.Base.Ref, SHA |-> gpr.Base.SHA],
     Labels |-> [i \in DOMAIN gpr.Labels |-> [Text |-> gpr.Labels[i]]],
     Comments |-> [i \in DOMAIN ic |->
                     [Author |-> ic[i].user, Text |-> ic[i].body,
                      ID |-> ic[i].id, Raw |-> RawCommentPath(ic[i].id)]],
     Raw |-> RawPRPath]

\* Mutation: the files are written only when the whole loop succeeds.
RECURSIVE WriteCommentsAtEnd(_, _, _, _, _)
WriteCommentsAtEnd(files, ic, n, failAt, how) ==
    IF failAt # 0 \/ n = 0 THEN files
    ELSE LET before == WriteCommentsAtEnd(files, ic, n - 1, 0, "ok")
             id == ic[n].id
         IN  [j \in (DOMAIN before) \cup {id} |->
                 IF j = id THEN JSONFile(ic[n]) ELSE before[j]]

\* The raw comment files after the loop wrote comments 1..n of ic, the
\* write of comment failAt (0: none) failing the way `how` says.
RECURSIVE WriteComments(_, _, _, _, _)
WriteComments(files, ic, n, failAt, how) ==
    IF n = 0 THEN files
    ELSE LET before == WriteComments(files, ic, n - 1, failAt, how)
             id == ic[n].id
             old == IF id \in DOMAIN before THEN before[id] ELSE NoFile
             new == writeJSON(old, ic[n], IF n = failAt THEN how ELSE "ok")
         IN  IF new = NoFile THEN before
             ELSE [j \in (DOMAIN before) \cup {id} |-> IF j = id THEN new ELSE before[j]]

DownloadStages == {"mkdir", "get", "writeRawPR", "mkdirComments", "list",
                   "writeComment", "writePR", "ok"}
StageNo(s) ==
    CASE s = "mkdir" -> 0 [] s = "get" -> 1 [] s = "writeRawPR" -> 2
      [] s = "mkdirComments" -> 3 [] s = "list" -> 4 [] s = "writeComment" -> 5
      [] s = "writePR" -> 6 [] s = "ok" -> 7

\* The files of the directory.
Files == [pr |-> prFile, rawPR |-> rawPRFile, comments |-> rawCommentFiles]

\* One run of Download: it fails at `stage` (at comment k when the stage is
\* "writeComment"; a failing write fails the way `how` says) or succeeds.
DownloadRun(stage, k, how) ==
    LET gpr == GetPullRequest
        ic == ghComments
        s == StageNo(stage)
        record == GenericPR(gpr, ic)
        after ==
            [rawPR |-> IF s < 2 THEN rawPRFile
                       ELSE writeJSON(rawPRFile, gpr, IF s = 2 THEN how ELSE "ok"),
             comments |-> IF s < 5 THEN rawCommentFiles
                          ELSE IF s = 5 THEN WriteComments(rawCommentFiles, ic, k, k, how)
                          ELSE WriteComments(rawCommentFiles, ic, Len(ic), 0, "ok"),
             pr |-> IF s < 6 THEN prFile
                    ELSE writeJSON(prFile, record, IF s = 6 THEN how ELSE "ok")]
    IN  /\ handler.kind = "handler"
        /\ pc = "idle"
        /\ stage = "writeComment" => k \in 1..Len(ic)
        /\ stage # "writeComment" => k = 0
        /\ stage \in {"writeRawPR", "writeComment", "writePR"} <=> how # "ok"
        /\ how # "ok" => how \in WriteOutcomes
        /\ rawPRFile' = after.rawPR
        /\ rawCommentFiles' = after.comments
        /\ prFile' = after.pr
        /\ err' = IF s = 7 THEN "nil" ELSE stage
        /\ dl' = IF s = 7
                 THEN [kind |-> "done", prov |-> Provider, file |-> JSONFile(record),
                       n |-> IF dl.kind = "done" THEN dl.n + 1 ELSE 1,
                       ext |-> ext, files |-> after,
                       \* the run before, when it succeeded too and no other
                       \* writer has changed the provider since
                       last |-> IF dl.kind = "done" /\ dlRun.kind = "ok" /\ dl.ext = ext
                                THEN [prov |-> dl.prov, files |-> dl.files]
                                ELSE None]
                 ELSE IF dl.kind = "done" THEN [dl EXCEPT !.n = @ + 1]
                 ELSE dl
        /\ dlRun' = IF s = 7 THEN [kind |-> "ok"]
                    ELSE [kind |-> "failed", stage |-> stage, k |-> k, err |-> stage,
                          prov |-> Provider, before |-> Files, after |-> after]
        /\ UNCHANGED <<provVars, runVars, runStart, prev, runs, edits, ext, urlVars, cacheVars>>

\* The download step of the pipeline; it is run again until it succeeds.
Download(stage, k, how) ==
    /\ dl.kind = "none"
    /\ DownloadRun(stage, k, how)

\* Download is run into the same directory again.
DownloadAgain(stage, k, how) ==
    /\ dl.kind = "done"
    /\ dl.n < MaxDownloads
    /\ DownloadRun(stage, k, how)

(***************************************************************************)
(* The pipeline steps between Download and Upload edit D/pr.json.          *)
(***************************************************************************)
CanEdit == /\ pc = "idle"
           /\ edits < MaxEdits
           /\ prFile.kind = "json"

Edited(rec) ==
    /\ prFile' = JSONFile(rec)
    /\ edits' = edits + 1
    /\ UNCHANGED <<provVars, rawPRFile, rawCommentFiles, runVars, err, histVars,
                   runs, ext, urlVars, cacheVars>>

RemoveAt(s, i) == [j \in 1..(Len(s) - 1) |-> IF j < i THEN s[j] ELSE s[j + 1]]

\* A step appends a comment; id 0 is a newly authored comment.
EditAddComment(id, text) ==
    /\ CanEdit
    /\ Edited([prFile.val EXCEPT !.Comments =
                 Append(@, [Author |-> "", Text |-> text, ID |-> id, Raw |-> ""])])

EditRemoveComment(i) ==
    /\ CanEdit
    /\ i \in DOMAIN prFile.val.Comments
    /\ Edited([prFile.val EXCEPT !.Comments = RemoveAt(@, i)])

EditSetText(i, text) ==
    /\ CanEdit
    /\ i \in DOMAIN prFile.val.Comments
    /\ prFile.val.Comments[i].Text # text
    /\ Edited([prFile.val EXCEPT !.Comments[i].Text = text])

EditSetLabels(names) ==
    /\ CanEdit
    /\ Edited([prFile.val EXCEPT !.Labels = [i \in DOMAIN names |-> [Text |-> names[i]]]])

(***************************************************************************)
(* Other writers change the pull request on the provider.                  *)
(***************************************************************************)
CanExt == /\ ext < MaxExt
          /\ dl.kind = "done"
          /\ pc \notin {"done", "failed"}

ExtChanged ==
    /\ ext' = ext + 1
    /\ UNCHANGED <<fileVars, runVars, err, histVars, runs, edits, urlVars, cacheVars>>

ExtDeleteComment(id) ==
    /\ CanExt
    /\ id \in IDsOf(ghComments)
    /\ ghComments' = DeleteComment(ghComments, id)
    /\ UNCHANGED <<ghLabels, nextID>>
    /\ ExtChanged

ExtEditComment(id, body) ==
    /\ CanExt
    /\ id \in IDsOf(ghComments)
    /\ ghComments[IndexOfID(ghComments, id)].body # body
    /\ ghComments' = EditComment(ghComments, id, body)
    /\ UNCHANGED <<ghLabels, nextID>>
    /\ ExtChanged

ExtSetLabels(names) ==
    /\ CanExt
    /\ names # ghLabels
    /\ ghLabels' = names
    /\ UNCHANGED <<ghComments, nextID>>
    /\ ExtChanged

ExtAddComment(body) ==
    /\ CanExt
    /\ ghComments' = Append(ghComments, [id |-> nextID, body |-> body, user |-> "u2"])
    /\ nextID' = nextID + 1
    /\ UNCHANGED ghLabels
    /\ ExtChanged

(***************************************************************************)
(* Upload.                                                                 *)
(***************************************************************************)
\* Mutation: the loop that collects the names starts one label too late.
LabelNamesSkipFirst(labels) == [i \in 1..(Len(labels) - 1) |-> labels[i + 1].Text]

\* labelNames: the Text of every on-disk label, in order.
LabelNames(labels) == [i \in DOMAIN labels |-> labels[i].Text]

\* Mutation: comments without an ID are left out of the map.
DesiredCommentsWithID(cs) ==
    [id \in {cs[i].ID : i \in DOMAIN cs} \ {0} |->
        cs[CHOOSE i \in DOMAIN cs :
              /\ cs[i].ID = id
              /\ \A j \in DOMAIN cs : cs[j].ID = id => j <= i]]

\* desiredComments[c.ID] = c for each on-disk comment in order: a later
\* comment replaces an earlier one that has the same ID.
DesiredComments(cs) ==
    [id \in {cs[i].ID : i \in DOMAIN cs} |->
        cs[CHOOSE i \in DOMAIN cs :
              /\ cs[i].ID = id
              /\ \A j \in DOMAIN cs : cs[j].ID = id => j <= i]]

\* Mutation: the entries are dropped by position, id and everything after it.
MapDeleteFrom(m, id) == [j \in {k \in DOMAIN m : k < id} |-> m[j]]

\* delete(desiredComments, id)
MapDelete(m, id) == [j \in (DOMAIN m) \ {id} |-> m[j]]

\* Mutations: the comparison of the texts is lost.
TextDiffersAlways(dc, ec) == TRUE
TextDiffersNever(dc, ec) == FALSE

\* dc.Text != ec.GetBody()
TextDiffers(dc, ec) == dc.Text # ec.body

\* Mutation: an existing comment that is not on disk is left alone.
ExistingOpNoDelete(desired, ec) ==
    IF ec.id \notin DOMAIN desired THEN "none"
    ELSE IF desired[ec.id].Text # ec.body THEN "EditComment"
    ELSE "none"

\* Mutation: the test of the map lookup is inverted.
ExistingOpInverted(desired, ec) ==
    IF ec.id \in DOMAIN desired THEN "DeleteComment" ELSE "none"

\* What the loop over existingComments does with one existing comment.
ExistingOp(desired, ec) ==
    IF ec.id \notin DOMAIN desired THEN "DeleteComment"
    ELSE IF TextDiffers(desired[ec.id], ec) THEN "EditComment"
    ELSE "none"

\* Mutation: a failing call undoes what the run did on the provider.
FailedRollback(call) ==
    /\ pc' = "failed"
    /\ err' = call.op
    /\ calls' = Append(calls, call)
    /\ ghLabels' = runStart.prov.labels
    /\ ghComments' = runStart.prov.comments
    /\ UNCHANGED <<nextID, fileVars, pr, desiredComments, existingComments, idx,
                   histVars, runs, edits, ext, urlVars, cacheVars>>

\* A provider call fails: Upload returns its error.
Failed(call) ==
    /\ pc' = "failed"
    /\ err' = call.op
    /\ calls' = Append(calls, call)
    /\ UNCHANGED <<provVars, fileVars, pr, desiredComments, existingComments, idx,
                   histVars, runs, edits, ext, urlVars, cacheVars>>

\* Mutation: the error of readJSON is dropped and the run goes on with the
\* empty record.
UploadBeginIgnoresReadError ==
    /\ handler.kind = "handler"
    /\ runs' = runs + 1
    /\ calls' = << >>
    /\ desiredComments' = << >>
    /\ existingComments' = << >>
    /\ idx' = 0
    /\ prev' = IF runs = 0 THEN prev
               ELSE [kind |-> "run", start |-> runStart.prov, nextID |-> runStart.nextID,
                     disk |-> runStart.disk, outcome |-> pc, calls |-> calls]
    /\ runStart' = [kind |-> "run", prov |-> Provider, nextID |-> nextID,
                    disk |-> prFile, ext |-> ext]
    /\ pr' = IF readJSONOk(prFile) THEN prFile.val
             ELSE [Type |-> "", ID |-> 0, Labels |-> << >>, Comments |-> << >>, Raw |-> ""]
    /\ pc' = "labels"
    /\ err' = "running"
    /\ UNCHANGED <<provVars, fileVars, dl, dlRun, edits, ext, urlVars, cacheVars>>

\* Upload begins: it reads D/pr.json.
UploadBegin ==
    /\ handler.kind = "handler"
    /\ runs' = runs + 1
    /\ calls' = << >>
    /\ desiredComments' = << >>
    /\ existingComments' = << >>
    /\ idx' = 0
    /\ prev' = IF runs = 0 THEN prev
               ELSE [kind |-> "run", start |-> runStart.prov, nextID |-> runStart.nextID,
                     disk |-> runStart.disk, outcome |-> pc, calls |-> calls]
    /\ runStart' = [kind |-> "run", prov |-> Provider, nextID |-> nextID,
                    disk |-> prFile, ext |-> ext]
    /\ IF readJSONOk(prFile)
       THEN /\ pr' = prFile.val
            /\ pc' = "labels"
            /\ err' = "running"
       ELSE /\ pr' = None
            /\ pc' = "failed"
            /\ err' = "readJSON"
    /\ UNCHANGED <<provVars, fileVars, dl, dlRun, edits, ext, urlVars, cacheVars>>

\* The upload step of the pipeline.
UploadStart ==
    /\ pc = "idle"
    /\ UploadBegin

\* The caller runs Upload again after a run that returned.
UploadRerun ==
    /\ pc \in {"done", "failed"}
    /\ runs < MaxRuns
    /\ ext = 0
    /\ UploadBegin

\* Mutation: the labels are sent only when they differ from the provider's.
UploadReplaceLabelsIfChanged(ok) ==
    LET labelNames == LabelNames(pr.Labels)
        call == Call("ReplaceLabels", 0, 0, "", labelNames, ok)
    IN  /\ pc = "labels"
        /\ IF labelNames = ghLabels
           THEN /\ ok
                /\ desiredComments' = DesiredComments(pr.Comments)
                /\ pc' = "list"
                /\ UNCHANGED <<provVars, fileVars, pr, existingComments, idx, calls,
                               err, histVars, runs, edits, ext, urlVars, cacheVars>>
           ELSE IF ok
           THEN /\ ghLabels' = ReplaceLabels(labelNames)
                /\ desiredComments' = DesiredComments(pr.Comments)
                /\ calls' = Append(calls, call)
                /\ pc' = "list"
                /\ UNCHANGED <<ghComments, nextID, fileVars, pr, existingComments, idx,
                               err, histVars, runs, edits, ext, urlVars, cacheVars>>
           ELSE Failed(call)

\* Issues.ReplaceLabelsForIssue with the on-disk label names; then the map
\* of the desired comments is built.
UploadReplaceLabels(ok) ==
    LET labelNames == LabelNames(pr.Labels)
        call == Call("ReplaceLabels", 0, 0, "", labelNames, ok)
    IN  /\ pc = "labels"
        /\ IF ok
           THEN /\ ghLabels' = ReplaceLabels(labelNames)
                /\ desiredComments' = DesiredComments(pr.Comments)
                /\ calls' = Append(calls, call)
                /\ pc' = "list"
                /\ UNCHANGED <<ghComments, nextID, fileVars, pr, existingComments, idx,
                               err, histVars, runs, edits, ext, urlVars, cacheVars>>
           ELSE Failed(call)

\* Issues.ListComments.
UploadListComments(ok) ==
    LET call == Call("ListComments", 0, 0, "", << >>, ok)
    IN  /\ pc = "list"
        /\ IF ok
           THEN /\ existingComments' = ghComments
                /\ idx' = 1
                /\ calls' = Append(calls, call)
                /\ pc' = IF ghComments = << >> THEN "create" ELSE "existing"
                /\ UNCHANGED <<provVars, fileVars, pr, desiredComments, err, histVars,
                               runs, edits, ext, urlVars, cacheVars>>
           ELSE Failed(call)

\* Mutation: the update carries the author of the on-disk comment.
UploadExistingSendsAuthor(ok) ==
    LET ec == existingComments[idx]
        op == ExistingOp(desiredComments, ec)
        body == IF op = "EditComment" THEN desiredComments[ec.id].Text ELSE ""
        call == Call(op, ec.id, ec.id, body, << >>, ok)
        present == ec.id \in IDsOf(ghComments)
    IN  /\ pc = "existing"
        /\ op = "none" => ok
        /\ (op # "none" /\ ~present) => ~ok
        /\ IF ok
           THEN /\ ghComments' =
                     CASE op = "DeleteComment" -> DeleteComment(ghComments, ec.id)
                       [] op = "EditComment" ->
                            [i \in DOMAIN ghComments |->
                               IF ghComments[i].id = ec.id
                               THEN [ghComments[i] EXCEPT
                                       !.body = body, !.user = desiredComments[ec.id].Author]
                               ELSE ghComments[i]]
                       [] op = "none" -> ghComments
                /\ calls' = IF op = "none" THEN calls ELSE Append(calls, call)
                /\ desiredComments' = MapDelete(desiredComments, ec.id)
                /\ idx' = idx + 1
                /\ pc' = IF idx = Len(existingComments) THEN "create" ELSE "existing"
                /\ UNCHANGED <<ghLabels, nextID, fileVars, pr, existingComments, err,
                               histVars, runs, edits, ext, urlVars, cacheVars>>
           ELSE Failed(call)

\* One iteration of the loop over existingComments.
UploadExisting(ok) ==
    LET ec == existingComments[idx]
        op == ExistingOp(desiredComments, ec)
        body == IF op = "EditComment" THEN desiredComments[ec.id].Text ELSE ""
        call == Call(op, ec.id, ec.id, body, << >>, ok)
        present == ec.id \in IDsOf(ghComments)
    IN  /\ pc = "existing"
        /\ op = "none" => ok
        /\ (op # "none" /\ ~present) => ~ok     \* the provider answers 404
        /\ IF ok
           THEN /\ ghComments' = CASE op = "DeleteComment" -> DeleteComment(ghComments, ec.id)
                                   [] op = "EditComment" -> EditComment(ghComments, ec.id, body)
                                   [] op = "none" -> ghComments
                /\ calls' = IF op = "none" THEN calls ELSE Append(calls, call)
                /\ desiredComments' = MapDelete(desiredComments, ec.id)
                /\ idx' = idx + 1
                /\ pc' = IF idx = Len(existingComments) THEN "create" ELSE "existing"
                /\ UNCHANGED <<ghLabels, nextID, fileVars, pr, existingComments, err,
                               histVars, runs, edits, ext, urlVars, cacheVars>>
           ELSE Failed(call)

\* Mutation: the on-disk ID is sent and the provider keeps it.
UploadCreateSendsID(id, ok) ==
    LET dc == desiredComments[id]
        call == Call("CreateComment", id, IF ok THEN id ELSE 0, dc.Text, << >>, ok)
    IN  /\ pc = "create"
        /\ id \in DOMAIN desiredComments
        /\ IF ok
           THEN /\ ghComments' = CreateComment(ghComments, id, dc.Text)
                /\ nextID' = nextID + 1
                /\ calls' = Append(calls, call)
                /\ desiredComments' = MapDelete(desiredComments, id)
                /\ UNCHANGED <<ghLabels, fileVars, pc, pr, existingComments, idx, err,
                               histVars, runs, edits, ext, urlVars, cacheVars>>
           ELSE Failed(call)

\* One iteration of the loop over what is left of desiredComments; a Go map
\* is ranged over in an unspecified order.  The visited key leaves the map
\* here, which stands for the progress of the iteration.
UploadCreate(id, ok) ==
    LET dc == desiredComments[id]
        call == Call("CreateComment", id, IF ok THEN nextID ELSE 0, dc.Text, << >>, ok)
    IN  /\ pc = "create"
        /\ id \in DOMAIN desiredComments
        /\ IF ok
           THEN /\ ghComments' = CreateComment(ghComments, nextID, dc.Text)
                /\ nextID' = nextID + 1
                /\ calls' = Append(calls, call)
                /\ desiredComments' = MapDelete(desiredComments, id)
                /\ UNCHANGED <<ghLabels, fileVars, pc, pr, existingComments, idx, err,
                               histVars, runs, edits, ext, urlVars, cacheVars>>
           ELSE Failed(call)

\* return nil
UploadReturn ==
    /\ pc = "create"
    /\ DOMAIN desiredComments = {}
    /\ pc' = "done"
    /\ err' = "nil"
    /\ UNCHANGED <<provVars, fileVars, pr, desiredComments, existingComments, idx,
                   calls, histVars, runs, edits, ext, urlVars, cacheVars>>

(***************************************************************************)
(* Upload as a function: the provider state an uninterrupted, successful   *)
(* Upload of record rec leaves, from provider state prov.                  *)
(***************************************************************************)
\* The loop over the first n entries of `existing`.
RECURSIVE ProcessExisting(_, _, _, _)
ProcessExisting(cs, existing, desired, n) ==
    IF n = 0 THEN [comments |-> cs, desired |-> desired]
    ELSE LET r == ProcessExisting(cs, existing, desired, n - 1)
             ec == existing[n]
             op == ExistingOp(r.desired, ec)
         IN  [comments |->
                 CASE op = "DeleteComment" -> DeleteComment(r.comments, ec.id)
                   [] op = "EditComment" ->
                        EditComment(r.comments, ec.id, r.desired[ec.id].Text)
                   [] op = "none" -> r.comments,
              desired |-> MapDelete(r.desired, ec.id)]

\* The loop over what is left of the map, in every order a range can take.
RECURSIVE CreateInEveryOrder(_, _, _)
CreateInEveryOrder(cs, nid, desired) ==
    IF DOMAIN desired = {} THEN {cs}
    ELSE UNION {CreateInEveryOrder(CreateComment(cs, nid, desired[k].Text), nid + 1,
                                   MapDelete(desired, k)) : k \in DOMAIN desired}

\* The same loop, ranging in ascending order of the keys.
RECURSIVE CreateAscending(_, _, _)
CreateAscending(cs, nid, desired) ==
    IF DOMAIN desired = {} THEN cs
    ELSE LET k == CHOOSE x \in DOMAIN desired : \A y \in DOMAIN desired : x <= y
         IN  CreateAscending(CreateComment(cs, nid, desired[k].Text), nid + 1,
                             MapDelete(desired, k))

\* Every provider state one Upload can leave.
UploadResults(prov, nid, rec) ==
    LET r == ProcessExisting(prov.comments, prov.comments,
                             DesiredComments(rec.Comments), Len(prov.comments))
    IN  {[labels |-> ReplaceLabels(LabelNames(rec.Labels)), comments |-> c] :
            c \in CreateInEveryOrder(r.comments, nid, r.desired)}

\* The provider state one Upload leaves when ListComments answers in
\* ascending order of the IDs and the map is ranged in ascending order.
UploadResultSorted(prov, nid, rec) ==
    LET existing == SortSeq(prov.comments, LAMBDA a, b : a.id < b.id)
        r == ProcessExisting(prov.comments, existing,
                             DesiredComments(rec.Comments), Len(existing))
    IN  [labels |-> ReplaceLabels(LabelNames(rec.Labels)),
         comments |-> CreateAscending(r.comments, nid, r.desired)]

(***************************************************************************)
(* The specification.                                                      *)
(***************************************************************************)
\* The body of the comment with identity id before the first step.
InitBody(id) == IF id % 2 = 1 THEN "a" ELSE "b"

\* The comment lists a pull request can have before the first step: up to
\* MaxInitComments comments with distinct identities, in any order.
RECURSIVE InitCommentLists(_)
InitCommentLists(n) ==
    IF n = 0 THEN {<< >>}
    ELSE InitCommentLists(n - 1) \cup
         {Append(x[1], [id |-> x[2], body |-> InitBody(x[2]), user |-> "u1"]) :
            x \in {y \in InitCommentLists(n - 1) \X (1..MaxInitComments) :
                      /\ Len(y[1]) = n - 1
                      /\ y[2] \notin IDsOf(y[1])}}

\* Nothing has run yet: the directory is empty.
InitRun ==
    /\ nextID = FirstFreshID
    /\ prFile = NoFile
    /\ rawPRFile = NoFile
    /\ rawCommentFiles = << >>
    /\ pc = "idle"
    /\ pr = None
    /\ desiredComments = << >>
    /\ existingComments = << >>
    /\ idx = 0
    /\ err = "nil"
    /\ calls = << >>
    /\ dl = None
    /\ dlRun = None
    /\ runStart = None
    /\ prev = None
    /\ runs = 0
    /\ edits = 0
    /\ ext = 0

\* NewEntrypointCache: the cache is empty.
NoCache ==
    /\ lru = << >>
    /\ lastGet = None
    /\ resolved = {}
    /\ pushes = 0

\* The process was given the URL of the pull request and has its handler.
Init ==
    /\ ghLabels \in InitLabelChoices
    /\ ghComments \in InitCommentLists(MaxInitComments)
    /\ InitRun
    /\ rawURL = PRURL
    /\ parsed = None
    /\ handler = NewGitHubHandler(PRURL)
    /\ NoCache
    /\ registry = [r \in Repos |-> "sha256:1"]

\* The process is given a URL.
InitURL ==
    /\ ghLabels = << >>
    /\ ghComments = << >>
    /\ InitRun
    /\ rawURL \in URLs
    /\ parsed = None
    /\ handler = None
    /\ NoCache
    /\ registry = [r \in Repos |-> "sha256:1"]

\* The entrypoint cache is new; the tags of the registry point to images.
InitCache ==
    /\ ghLabels = << >>
    /\ ghComments = << >>
    /\ InitRun
    /\ rawURL = PRURL
    /\ parsed = None
    /\ handler = None
    /\ NoCache
    /\ registry \in [Repos -> Digests]

\* The positions of the comments in D/pr.json.
DiskPositions == 1..(MaxInitComments + MaxEdits)

EditNext ==
    \/ \E id \in AddIDs, text \in Texts : EditAddComment(id, text)
    \/ \E i \in DiskPositions : EditRemoveComment(i)
    \/ \E i \in DiskPositions, text \in Texts : EditSetText(i, text)
    \/ \E names \in EditLabelChoices : EditSetLabels(names)

UploadNext ==
    \/ \E ok \in BOOLEAN : UploadReplaceLabels(ok)
    \/ \E ok \in BOOLEAN : UploadListComments(ok)
    \/ \E ok \in BOOLEAN : UploadExisting(ok)
    \/ \E id \in AddIDs \cup (1..MaxInitComments), ok \in BOOLEAN : UploadCreate(id, ok)
    \/ UploadReturn

DownloadNext ==
    \E stage \in DownloadStages, k \in 0..MaxInitComments, how \in WriteOutcomes :
        Download(stage, k, how)

\* A comment list has at most one more comment per change of another writer.
DownloadAgainNext ==
    \E stage \in DownloadStages, k \in 0..(MaxInitComments + MaxExt),
       how \in WriteOutcomes :
        DownloadAgain(stage, k, how)

ExtNext ==
    \/ \E id \in 1..MaxInitComments : ExtDeleteComment(id)
    \/ \E id \in 1..MaxInitComments, body \in Texts : ExtEditComment(id, body)
    \/ \E names \in EditLabelChoices : ExtSetLabels(names)
    \/ \E body \in Texts : ExtAddComment(body)

\* The pipeline: Download, the steps that edit the directory, Upload.
Next ==
    \/ DownloadNext
    \/ EditNext
    \/ UploadStart
    \/ UploadNext

\* The pipeline, and the caller running Upload again after it returned.
NextRerun ==
    \/ DownloadNext
    \/ EditNext
    \/ UploadStart
    \/ UploadRerun
    \/ UploadNext

\* Download and Upload of the directory as Download wrote it, and other
\* writers changing the pull request meanwhile.
NextWriters ==
    \/ DownloadNext
    \/ ExtNext
    \/ UploadStart
    \/ UploadNext

\* Download run again into the same directory, while other writers change
\* the pull request.
NextDownload ==
    \/ DownloadNext
    \/ DownloadAgainNext
    \/ ExtNext

\* The resolution of a URL, by the resolver and by the constructor.
NextURL ==
    \/ ParseURL
    \/ NewHandler

\* The reconcilers look entrypoints up while images are pushed.
NextCache ==
    \/ \E imageName \in ImageNames, outcome \in GetOutcomes : Get(imageName, outcome)
    \/ \E repo \in Repos, digest \in Digests : Push(repo, digest)

Spec == Init /\ [][Next]_vars
SpecRerun == Init /\ [][NextRerun]_vars
SpecWriters == Init /\ [][NextWriters]_vars
SpecDownload == Init /\ [][NextDownload]_vars
SpecURL == InitURL /\ [][NextURL]_vars
SpecCache == InitCache /\ [][NextCache]_vars

(***************************************************************************)
(* Properties.                                                             *)
(***************************************************************************)
IsCommentCall(c) == c.op \in {"CreateComment", "EditComment", "DeleteComment"}
CommentCalls == SelectSeq(calls, IsCommentCall)
CallsOf(cs, op) == {i \in DOMAIN cs : cs[i].op = op}

Downloaded == dl.kind = "done"
\* No other writer has changed the provider since the Download.
NoOtherWriter == ext = 0
\* No other writer has changed the provider since the run began.
NoWriterDuringRun == runStart.kind = "run" /\ runStart.ext = ext
FirstRunDone == pc = "done" /\ runs = 1
DiskIDs(rec) == {rec.Comments[i].ID : i \in DOMAIN rec.Comments}
NoIDComments(rec) == {i \in DOMAIN rec.Comments : rec.Comments[i].ID = 0}
\* The remote comments that did not exist when `before` was the comment list.
NewComments(before) == {i \in DOMAIN ghComments : ghComments[i].id \notin IDsOf(before)}

\* C1: a Download followed by an Upload of the unedited directory, with no
\* provider change in between, issues no CreateComment, EditComment or
\* DeleteComment call and exactly one ReplaceLabels call, whose list is the
\* original label names in their original order.
RoundTrip ==
    (FirstRunDone /\ Downloaded /\ prFile = dl.file /\ NoOtherWriter) =>
        /\ CommentCalls = << >>
        /\ Cardinality(CallsOf(calls, "ReplaceLabels")) = 1
        /\ calls[1] = Call("ReplaceLabels", 0, 0, "", dl.prov.labels, TRUE)
        /\ Provider = dl.prov

RoundTripWitness ==
    /\ FirstRunDone /\ Downloaded /\ prFile = dl.file /\ NoOtherWriter
    /\ Len(dl.prov.comments) = 2
    /\ Len(dl.prov.labels) = 3

\* C2: when the on-disk record has two comments with no ID, a successful
\* Upload issues two CreateComment calls and leaves two separate new remote
\* comments, one per on-disk comment.
TwoNewCommentsBothCreated ==
    (FirstRunDone /\ NoWriterDuringRun /\ Cardinality(NoIDComments(pr)) = 2) =>
        /\ Cardinality({i \in CallsOf(calls, "CreateComment") : calls[i].key = 0}) = 2
        /\ Cardinality(NewComments(runStart.prov.comments)) >= 2

\* The identities the provider assigned to the comments that the runs since
\* the previous one began created for the on-disk comment without an ID.
IsCreateForNoID(c) == c.op = "CreateComment" /\ c.ok /\ c.key = 0
CreatedForNoID ==
    {prev.calls[i].id : i \in {j \in DOMAIN prev.calls : IsCreateForNoID(prev.calls[j])}}
    \cup {calls[i].id : i \in {j \in DOMAIN calls : IsCreateForNoID(calls[j])}}
RerunDone ==
    /\ pc = "done" /\ runs >= 2
    /\ prev.kind = "run" /\ prev.disk = runStart.disk
    /\ NoOtherWriter
PrevCreatedForNoID == {i \in DOMAIN prev.calls : IsCreateForNoID(prev.calls[i])}

\* C3 as stated: when an earlier Upload has created the remote comment for
\* a no-ID on-disk comment, a re-run with the same record leaves two remote
\* comments that came from that one on-disk comment.
RerunLeavesDuplicate ==
    (RerunDone /\ PrevCreatedForNoID # {}) =>
        Cardinality({i \in DOMAIN ghComments : ghComments[i].id \in CreatedForNoID}) = 2

\* C3, amended: the re-run issues CreateComment for that on-disk comment
\* again, and (unless the on-disk record carries the ID the provider gave
\* the earlier-created comment) it deletes the earlier-created comment, whose
\* ID is not on disk; one remote comment from that on-disk comment is left.
RerunReplacesCreated ==
    (RerunDone /\ PrevCreatedForNoID # {}) =>
        \A i \in PrevCreatedForNoID :
            LET earlier == prev.calls[i].id
            IN  /\ \E j \in DOMAIN calls : IsCreateForNoID(calls[j])
                /\ earlier \notin DiskIDs(pr) =>
                      /\ earlier \notin IDsOf(ghComments)
                      /\ \E j \in DOMAIN calls :
                            calls[j] = Call("DeleteComment", earlier, earlier, "", << >>, TRUE)
                      /\ Cardinality({j \in DOMAIN ghComments :
                                        ghComments[j].id \in CreatedForNoID}) = 1

RerunReplacesCreatedWitness ==
    /\ RerunDone
    /\ prev.outcome = "failed"
    /\ \E i \in PrevCreatedForNoID : prev.calls[i].id \notin DiskIDs(pr)

\* The on-disk record is the downloaded one without its i-th comment.
RemovedOnDisk(i) ==
    /\ Downloaded /\ prFile.kind = "json"
    /\ i \in DOMAIN dl.file.val.Comments
    /\ prFile.val = [dl.file.val EXCEPT !.Comments = RemoveAt(@, i)]

\* C4: when a comment present at download time is absent from the on-disk
\* record, Upload issues exactly one DeleteComment call, for that comment's
\* ID, and deletes, edits or creates no other remote comment.
CommentDeletion ==
    \A i \in 1..MaxInitComments :
        (FirstRunDone /\ NoOtherWriter /\ RemovedOnDisk(i)) =>
            LET id == dl.file.val.Comments[i].ID
            IN  /\ CommentCalls = <<Call("DeleteComment", id, id, "", << >>, TRUE)>>
                /\ ghComments = RemoveAt(dl.prov.comments, i)

CommentDeletionWitness ==
    /\ FirstRunDone /\ NoOtherWriter
    /\ RemovedOnDisk(1)
    /\ Len(dl.prov.comments) = 2

\* The on-disk record is the downloaded one with one comment without an ID
\* added at position i.
AddedOnDisk(i) ==
    /\ Downloaded /\ prFile.kind = "json"
    /\ i \in DOMAIN prFile.val.Comments
    /\ prFile.val.Comments[i].ID = 0
    /\ dl.file.val = [prFile.val EXCEPT !.Comments = RemoveAt(@, i)]

\* C5: when one comment with no ID is added to an otherwise unedited
\* record, Upload issues exactly one CreateComment call with that comment's
\* Text, leaves the existing remote comments as they were, and the remote
\* comment count grows by one.
CommentCreation ==
    \A i \in DiskPositions :
        (FirstRunDone /\ NoOtherWriter /\ AddedOnDisk(i)) =>
            LET n == Len(dl.prov.comments)
            IN  /\ Len(CommentCalls) = 1
                /\ CommentCalls[1].op = "CreateComment"
                /\ CommentCalls[1].body = prFile.val.Comments[i].Text
                /\ CommentCalls[1].ok
                /\ Len(ghComments) = n + 1
                /\ SubSeq(ghComments, 1, n) = dl.prov.comments
                /\ ghComments[n + 1].body = prFile.val.Comments[i].Text
                /\ ghComments[n + 1].id \notin IDsOf(dl.prov.comments)

CommentCreationWitness ==
    /\ FirstRunDone /\ NoOtherWriter
    /\ \E i \in DiskPositions : AddedOnDisk(i)
    /\ Len(dl.prov.comments) = 2

\* The on-disk record is the downloaded one with the Text of its i-th
\* comment changed.
TextChangedOnDisk(i) ==
    /\ Downloaded /\ prFile.kind = "json"
    /\ i \in DOMAIN dl.file.val.Comments
    /\ i \in DOMAIN prFile.val.Comments
    /\ prFile.val.Comments[i].Text # dl.file.val.Comments[i].Text
    /\ prFile.val = [dl.file.val EXCEPT !.Comments[i].Text = prFile.val.Comments[i].Text]

\* C6: when only the Text of an existing comment is changed on disk, Upload
\* issues exactly one EditComment call, for that ID and with the new body,
\* and no DeleteComment and no CreateComment call.
CommentUpdate ==
    \A i \in 1..MaxInitComments :
        (FirstRunDone /\ NoOtherWriter /\ TextChangedOnDisk(i)) =>
            LET dc == prFile.val.Comments[i]
            IN  /\ CommentCalls = <<Call("EditComment", dc.ID, dc.ID, dc.Text, << >>, TRUE)>>
                /\ ghComments = [dl.prov.comments EXCEPT ![i].body = dc.Text]

CommentUpdateWitness ==
    /\ FirstRunDone /\ NoOtherWriter
    /\ TextChangedOnDisk(2)

\* C7: after a successful Upload the labels of the PR on the provider are
\* exactly the Text values of the on-disk labels, in order, whatever labels
\* it had before; no on-disk label leaves the PR without labels.
LabelReplaceTotal ==
    (pc = "done" /\ NoWriterDuringRun) =>
        /\ Len(ghLabels) = Len(prFile.val.Labels)
        /\ \A i \in DOMAIN ghLabels : ghLabels[i] = prFile.val.Labels[i].Text

LabelReplaceTotalWitness ==
    /\ pc = "done" /\ NoWriterDuringRun
    /\ prFile.val.Labels = << >>
    /\ runStart.prov.labels # << >>

\* The provider state the successful calls cs[1..n] make of prov.
RECURSIVE ApplyCalls(_, _, _)
ApplyCalls(prov, cs, n) ==
    IF n = 0 THEN prov
    ELSE LET p == ApplyCalls(prov, cs, n - 1)
             c == cs[n]
         IN  IF ~c.ok THEN p
             ELSE CASE c.op = "ReplaceLabels" -> [p EXCEPT !.labels = c.labels]
                    [] c.op = "ListComments" -> p
                    [] c.op = "DeleteComment" ->
                         [p EXCEPT !.comments = DeleteComment(@, c.id)]
                    [] c.op = "EditComment" ->
                         [p EXCEPT !.comments = EditComment(@, c.id, c.body)]
                    [] c.op = "CreateComment" ->
                         [p EXCEPT !.comments = CreateComment(@, c.id, c.body)]

\* C8: when a provider call of Upload fails, Upload returns that error and
\* issues no further call in that run (the failed call is the last one of
\* the run and the only one that failed), and the effects of the calls that
\* succeeded before it stay on the provider.
UploadFailureSemantics ==
    runStart.kind = "run" =>
        /\ \A i \in 1..(Len(calls) - 1) : calls[i].ok
        /\ (pc = "failed" /\ err # "readJSON") <=>
              (calls # << >> /\ ~calls[Len(calls)].ok)
        /\ (pc = "failed" /\ err # "readJSON") => err = calls[Len(calls)].op
        /\ NoWriterDuringRun => Provider = ApplyCalls(runStart.prov, calls, Len(calls))

UploadFailureWitness ==
    /\ pc = "failed" /\ NoWriterDuringRun
    /\ Len(calls) >= 4
    /\ calls[Len(calls)].op = "CreateComment"
    /\ ghComments # runStart.prov.comments

\* What a provider state is up to the identities of the comments created
\* since `before` was the comment list.
UpToNewIDs(prov, before) ==
    [labels |-> prov.labels,
     kept |-> SelectSeq(prov.comments, LAMBDA c : c.id \in IDsOf(before)),
     created |-> [t \in Texts |->
                    Cardinality({i \in DOMAIN prov.comments :
                                   /\ prov.comments[i].id \notin IDsOf(before)
                                   /\ prov.comments[i].body = t})]]

\* An Upload aborted by a failed provider call was re-run to completion with
\* the same on-disk record, in which no comment lacks an ID.
RecoveredByRerun ==
    /\ RerunDone
    /\ prev.outcome = "failed" /\ prev.calls # << >>
    /\ 0 \notin DiskIDs(pr)

\* C9 as stated: after the re-run the provider's labels and comments equal
\* what a single uninterrupted Upload would have produced.
RerunEqualsSingleRun ==
    RecoveredByRerun => Provider \in UploadResults(prev.start, prev.nextID, pr)

\* C9, amended: they equal what a single uninterrupted Upload would have
\* produced up to the provider-assigned IDs of the newly created comments.
RerunConvergesUpToNewIDs ==
    RecoveredByRerun =>
        \A r \in UploadResults(prev.start, prev.nextID, pr) :
            UpToNewIDs(Provider, prev.start.comments) = UpToNewIDs(r, prev.start.comments)

RerunConvergesWitness ==
    /\ RecoveredByRerun
    /\ \E i \in DOMAIN prev.calls : prev.calls[i].op = "CreateComment" /\ prev.calls[i].ok
    /\ Provider \notin UploadResults(prev.start, prev.nextID, pr)

\* The converged state: which comments that existed before survive and with
\* which body, and the bodies of the newly created comments.
Converged(prov, before) ==
    [kept |-> {<<prov.comments[i].id, prov.comments[i].body>> :
                 i \in {j \in DOMAIN prov.comments : prov.comments[j].id \in IDsOf(before)}},
     created |-> [t \in Texts |->
                    Cardinality({i \in DOMAIN prov.comments :
                                   /\ prov.comments[i].id \notin IDsOf(before)
                                   /\ prov.comments[i].body = t})]]

\* C10: the converged state after a successful Upload is the same whatever
\* the order in which the existing comments are processed and the order in
\* which the remaining entries of the map are ranged over; it is the one the
\* ascending orders give.
OrderIndependence ==
    (FirstRunDone /\ NoWriterDuringRun) =>
        Converged(Provider, runStart.prov.comments)
          = Converged(UploadResultSorted(runStart.prov, runStart.nextID, pr),
                      runStart.prov.comments)

OrderIndependenceWitness ==
    /\ FirstRunDone /\ NoWriterDuringRun
    /\ Len(existingComments) = 2
    /\ existingComments[1].id > existingComments[2].id
    /\ \E i, j \in CallsOf(calls, "CreateComment") : i < j /\ calls[i].key > calls[j].key
    /\ Provider # UploadResultSorted(runStart.prov, runStart.nextID, pr)

\* The pieces "/" of a URL, and the piece where the PR number is looked for
\* (the one after the fourth "/"; no segment before it is empty in URLs).
Slashes(raw) == {i \in DOMAIN raw : raw[i] = "/"}
NumberSegment(raw) == IF Len(raw) >= 11 /\ raw[11] # "/" THEN raw[11] ELSE ""
Numerals == {"1", "2"}

\* scheme://host/<owner>/<repo>/<token>/1, then nothing, a "/" or more segments.
LenientShape(raw) ==
    /\ Len(raw) >= 11
    /\ raw[2] = "://"
    /\ \A i \in {4, 6, 8, 10} : raw[i] = "/"
    /\ \A i \in {5, 7, 9} : raw[i] # "/"
    /\ raw[11] = "1"
    /\ Len(raw) > 11 => raw[12] = "/"

\* C11: a URL whose path is /owner/repo/<any token>/1, optionally followed by
\* a trailing slash or further segments, with any scheme and any host, is
\* resolved to (owner, repo, 1); the fourth segment is not checked.
LenientResolution ==
    (parsed.kind # "none" /\ LenientShape(rawURL)) =>
        parsed = [kind |-> "ok", err |-> "nil", owner |-> rawURL[5],
                  repo |-> rawURL[7], pr |-> 1]

LenientResolutionWitness ==
    /\ parsed.kind = "ok"
    /\ LenientShape(rawURL)
    /\ rawURL[1] = "https" /\ rawURL[3] = "example.com"
    /\ rawURL[5] = "owner" /\ rawURL[7] = "repo" /\ rawURL[9] = "foo"
    /\ Len(rawURL) = 13 /\ rawURL[13] = "files"

\* The empty URL, a path of fewer segments than owner/repo/<token>/<number>,
\* or a PR-number segment that is not a number.
Unresolvable(raw) ==
    \/ raw = << >>
    \/ Cardinality(Slashes(raw)) < 4
    \/ NumberSegment(raw) \notin Numerals

\* C12: for an empty URL, a URL whose path has fewer segments than
\* owner/repo/<token>/<number>, and a URL whose PR-number segment is not
\* numeric, the resolution fails with an error and yields no owner, repo or
\* number, and no handler.
ResolutionErrors ==
    Unresolvable(rawURL) =>
        /\ parsed.kind # "none" =>
              parsed.kind = "error" /\ parsed.err # "nil"
              /\ parsed.owner = "" /\ parsed.repo = "" /\ parsed.pr = 0
        /\ handler.kind # "none" => handler.kind = "error"

ResolutionErrorsWitness ==
    /\ parsed.kind = "error" /\ handler.kind = "error"
    /\ Cardinality(Slashes(rawURL)) = 4
    /\ NumberSegment(rawURL) = "foo"

\* C13: NewGitHubHandler accepts a URL only when its path splits on "/" into
\* exactly five parts (empty, owner, repo, token, number); a URL with a
\* trailing slash or any extra trailing segment is rejected with an error and
\* no handler is returned.
StrictHandlerURL ==
    handler.kind # "none" =>
        /\ handler.kind = "handler" =>
              /\ Cardinality(Slashes(rawURL)) = 4
              /\ Len(rawURL) = 11
              /\ handler = [kind |-> "handler", owner |-> rawURL[5], repo |-> rawURL[7],
                            prNum |-> Atoi(rawURL[11]).val]
        /\ (LenientShape(rawURL) /\ Len(rawURL) > 11) =>
              handler.kind = "error" /\ handler.err # "nil"

StrictHandlerURLWitness ==
    /\ handler.kind = "error"
    /\ parsed.kind = "ok"
    /\ LenientShape(rawURL)
    /\ Len(rawURL) = 12

\* The file at a path of the directory.
FileAt(path) ==
    IF path = RawPRPath THEN rawPRFile
    ELSE IF \E id \in DOMAIN rawCommentFiles : RawCommentPath(id) = path
         THEN rawCommentFiles[CHOOSE id \in DOMAIN rawCommentFiles : RawCommentPath(id) = path]
         ELSE NoFile

\* The payload of the pull request when the provider state was prov.
PayloadOf(prov) == [GetPullRequest EXCEPT !.Labels = prov.labels]

\* Download has succeeded and nothing has touched the directory since.
FreshDownload == Downloaded /\ dlRun.kind = "ok" /\ edits = 0 /\ prFile.kind = "json"

\* C14: after a successful Download into D, the record's Raw is
\* D/github/pr.json and that file holds the PR payload the provider returned;
\* the Raw of every comment of the record is D/github/comments/<its ID>.json
\* and that file holds the payload the provider returned for the comment
\* with that ID.
ProvenanceIntegrity ==
    FreshDownload =>
        /\ prFile.val.Raw = "D/github/pr.json"
        /\ FileAt(prFile.val.Raw) = JSONFile(PayloadOf(dl.prov))
        /\ \A i \in DOMAIN prFile.val.Comments :
              LET c == prFile.val.Comments[i]
              IN  /\ c.Raw = "D/github/comments/" \o ToString(c.ID) \o ".json"
                  /\ c.ID \in IDsOf(dl.prov.comments)
                  /\ FileAt(c.Raw) =
                        JSONFile(dl.prov.comments[IndexOfID(dl.prov.comments, c.ID)])

ProvenanceIntegrityWitness ==
    /\ FreshDownload
    /\ Len(prFile.val.Comments) = 2
    /\ prFile.val.Comments[1].ID = 2
    /\ FileAt("D/github/comments/2.json").kind = "json"

\* The comments whose raw file a failed run wrote before it failed.
WrittenBefore(run) ==
    CASE StageNo(run.stage) < 5 -> {}
      [] StageNo(run.stage) = 5 -> 1..(run.k - 1)
      [] OTHER -> DOMAIN run.prov.comments

\* C15: when the PR fetch, the comment-list fetch or a file write fails,
\* Download returns the error without writing the generic record D/pr.json in
\* that run (it is written last, after the raw PR file and every raw comment
\* file), and the files written earlier in that run are left in place.
DownloadFailureSemantics ==
    dlRun.kind = "failed" =>
        /\ dlRun.err # "nil"
        /\ \/ dlRun.after.pr = dlRun.before.pr
           \/ dlRun.stage = "writePR" /\ dlRun.after.pr = Truncated
        /\ StageNo(dlRun.stage) > 2 => dlRun.after.rawPR = JSONFile(PayloadOf(dlRun.prov))
        /\ \A i \in WrittenBefore(dlRun) :
              LET c == dlRun.prov.comments[i]
              IN  c.id \in DOMAIN dlRun.after.comments
                  /\ dlRun.after.comments[c.id] = JSONFile(c)
        /\ dlRun.stage = "writePR" =>
              WrittenBefore(dlRun) = DOMAIN dlRun.prov.comments

DownloadFailureWitness ==
    /\ dlRun.kind = "failed"
    /\ dlRun.stage = "writeComment" /\ dlRun.k = 2
    /\ dlRun.before.pr.kind = "json"
    /\ dlRun.after.pr = dlRun.before.pr
    /\ dlRun.after.rawPR # dlRun.before.rawPR
    /\ dlRun.after.comments # dlRun.before.comments
    /\ Files = dlRun.after

\* C16: running Download twice into the same directory with unchanged
\* provider state leaves D/pr.json, D/github/pr.json and every
\* D/github/comments/<id>.json with the same content after the second run as
\* after the first.
DownloadIdempotent ==
    (Downloaded /\ dl.last # None /\ dl.last.prov = dl.prov) =>
        dl.files = dl.last.files

DownloadIdempotentWitness ==
    /\ Downloaded /\ dl.last # None /\ dl.last.prov = dl.prov
    /\ dlRun.kind = "ok"
    /\ Files = dl.files
    /\ Len(dl.prov.comments) = 2

\* C17: the record Download produces has Type "github", the provider's PR
\* ID, Head and Base with the provider's clone URL, ref and SHA, the
\* provider's label names in the provider's order with duplicates kept (an
\* empty list when the PR has no labels), and one comment per provider
\* comment, in the provider's order, with its ID, author login and body.
GenericRecord ==
    FreshDownload =>
        LET rec == prFile.val
            gpr == PayloadOf(dl.prov)
            ic == dl.prov.comments
        IN  /\ rec.Type = "github"
            /\ rec.ID = gpr.ID
            /\ rec.Head = [Repo |-> "https://github.com/baz/bar", Branch |-> "feature", SHA |-> "2"]
            /\ rec.Base = [Repo |-> "https://github.com/foo/bar", Branch |-> "master", SHA |-> "1"]
            /\ Len(rec.Labels) = Len(dl.prov.labels)
            /\ \A i \in DOMAIN rec.Labels : rec.Labels[i] = [Text |-> dl.prov.labels[i]]
            /\ Len(rec.Comments) = Len(ic)
            /\ \A i \in DOMAIN rec.Comments :
                  /\ rec.Comments[i].ID = ic[i].id
                  /\ rec.Comments[i].Author = ic[i].user
                  /\ rec.Comments[i].Text = ic[i].body

GenericRecordWitness ==
    /\ FreshDownload
    /\ dl.prov.labels = <<"wip", "bug", "wip">>
    /\ Len(prFile.val.Comments) = 2

\* An Upload run has read the on-disk record.
ReadRecord == runStart.kind = "run" /\ pr # None

\* C18: every Upload that reads the on-disk record issues exactly one
\* ReplaceLabels call, before the ListComments call and before any comment
\* create, edit or delete call, whether or not the labels differ from the
\* provider's; when ReplaceLabels fails, no comment call is issued at all.
UploadOrdering ==
    ReadRecord =>
        /\ Cardinality(CallsOf(calls, "ReplaceLabels")) <= 1
        /\ pc # "labels" =>
              /\ calls # << >>
              /\ calls[1].op = "ReplaceLabels"
              /\ calls[1].labels = LabelNames(pr.Labels)
        /\ \A i \in DOMAIN calls :
              calls[i].op # "ReplaceLabels" => (i > 1 /\ calls[1].ok)
        /\ \A i \in DOMAIN calls :
              IsCommentCall(calls[i]) =>
                  \E j \in 1..(i - 1) : calls[j].op = "ListComments" /\ calls[j].ok
        /\ (calls # << >> /\ ~calls[1].ok) => (Len(calls) = 1 /\ pc = "failed")

UploadOrderingWitness ==
    /\ ReadRecord
    /\ pc = "done"
    /\ calls[1].labels = runStart.prov.labels
    /\ runStart.prov.labels # << >>
    /\ \E i, j \in DOMAIN calls :
          calls[i].op = "DeleteComment" /\ calls[j].op = "CreateComment"

\* The on-disk comments whose ID matched no comment that ListComments returned.
Unmatched(rec, existing) ==
    {i \in DOMAIN rec.Comments : rec.Comments[i].ID \notin IDsOf(existing)}

\* C19: after a successful Upload with no other writer changing the provider
\* during the run, the provider's comments are exactly: each comment that
\* existed at ListComments time and whose ID is in the on-disk record, with
\* the on-disk Text for that ID as its body; plus one new comment for each
\* on-disk comment whose ID matched no existing provider comment; every
\* comment that existed and whose ID is not on disk is gone.
ReconciledComments ==
    (pc = "done" /\ NoWriterDuringRun) =>
        LET unmatched == Unmatched(pr, existingComments)
            new == NewComments(existingComments)
        IN  /\ IDsOf(ghComments) \cap IDsOf(existingComments)
                 = IDsOf(existingComments) \cap DiskIDs(pr)
            /\ \A k \in (DOMAIN ghComments) \ new :
                  \E i \in DOMAIN pr.Comments :
                      /\ pr.Comments[i].ID = ghComments[k].id
                      /\ pr.Comments[i].Text = ghComments[k].body
            /\ \A t \in Texts :
                  Cardinality({k \in new : ghComments[k].body = t})
                    = Cardinality({i \in unmatched : pr.Comments[i].Text = t})

\* The on-disk comments with an ID that is not zero and that matched no
\* comment ListComments returned.
UnmatchedWithID ==
    {i \in Unmatched(pr, existingComments) : pr.Comments[i].ID # 0}

\* C20: an on-disk comment whose ID is not zero but matches no comment
\* currently on the provider (for example one deleted remotely after the
\* download) is created by Upload as a new remote comment with its Text,
\* under a new provider-assigned ID; the on-disk ID is not sent.
UnmatchedIDCreated ==
    (pc = "done" /\ NoWriterDuringRun) =>
        \A i \in UnmatchedWithID :
            LET c == pr.Comments[i]
                creates == {n \in CallsOf(calls, "CreateComment") : calls[n].key = c.ID}
            IN  /\ Cardinality(creates) = 1
                /\ \A n \in creates :
                      /\ calls[n].ok
                      /\ calls[n].body = c.Text
                      /\ calls[n].id >= runStart.nextID
                      /\ calls[n].id \notin IDsOf(runStart.prov.comments)
                      /\ \E k \in DOMAIN ghComments :
                            ghComments[k] = [id |-> calls[n].id, body |-> c.Text, user |-> "bot"]
                /\ c.ID < runStart.nextID => c.ID \notin IDsOf(ghComments)

UnmatchedIDCreatedWitness ==
    /\ pc = "done" /\ NoWriterDuringRun /\ Downloaded
    /\ \E i \in UnmatchedWithID :
          /\ pr.Comments[i].ID \in IDsOf(dl.prov.comments)
          /\ pr.Comments[i].ID \notin IDsOf(runStart.prov.comments)
          /\ pr.Comments[i].ID \notin IDsOf(ghComments)

\* The comment with identity id in a comment list.
CommentOf(cs, id) == cs[IndexOfID(cs, id)]

\* C21: an EditComment issued by Upload changes only the body of the remote
\* comment: the comment keeps its ID and its author, and no field of the
\* on-disk comment other than Text (Author, Raw) influences it.
EditChangesOnlyBody ==
    (runStart.kind = "run" /\ NoWriterDuringRun) =>
        \A n \in CallsOf(calls, "EditComment") :
            calls[n].ok =>
                LET id == calls[n].id
                    dc == DesiredComments(pr.Comments)[id]
                IN  /\ id \in IDsOf(runStart.prov.comments)
                    /\ id \in IDsOf(ghComments)
                    /\ calls[n].body = dc.Text
                    /\ CommentOf(ghComments, id) =
                          [CommentOf(runStart.prov.comments, id) EXCEPT !.body = dc.Text]

EditChangesOnlyBodyWitness ==
    /\ pc = "done" /\ NoWriterDuringRun
    /\ \E n \in CallsOf(calls, "EditComment") :
          /\ calls[n].ok
          /\ DesiredComments(pr.Comments)[calls[n].id].Author
               # CommentOf(ghComments, calls[n].id).user
          /\ DesiredComments(pr.Comments)[calls[n].id].Raw # RawCommentPath(calls[n].id)
          /\ CommentOf(ghComments, calls[n].id).user = "u1"

\* C22: when D/pr.json is missing, unreadable or not valid JSON, Upload
\* returns an error before issuing any provider call, so the provider's
\* labels and comments are unchanged.
UploadReadFailure ==
    (runStart.kind = "run" /\ ~readJSONOk(runStart.disk)) =>
        /\ pc = "failed"
        /\ err = "readJSON"
        /\ calls = << >>
        /\ NoWriterDuringRun => Provider = runStart.prov

UploadReadFailureWitness ==
    /\ runStart.kind = "run"
    /\ runStart.disk = Truncated
    /\ pc = "failed"
    /\ ghLabels # << >> /\ ghComments # << >>

\* The entrypoint the registry's image of a digest has.
EntrypointOf(digest) ==
    IF Len(ConfigFile(digest).Entrypoint) = 0
    THEN ConfigFile(digest).Cmd ELSE ConfigFile(digest).Entrypoint

\* Every entry of the cache came from a lookup in the registry that
\* succeeded and resolved to the entry's digest, and is that image's entrypoint.
CachedAfterLookup ==
    \A i \in DOMAIN lru :
        /\ [key |-> lru[i].key, value |-> lru[i].value] \in resolved
        /\ \E r \in Repos, d \in Digests :
              /\ lru[i].key = DigestString(r, d)
              /\ lru[i].value = EntrypointOf(d)

\* A Get for a digest reference whose digest was cached returned the cached
\* entrypoint and that digest, and did not contact the registry.
CachedDigestAnswered ==
    (/\ lastGet.kind = "get"
     /\ lastGet.ref.kind = "digest"
     /\ DigestString(lastGet.ref.repo, lastGet.ref.id) \in lruKeys(lastGet.before)) =>
        /\ ~lastGet.contacted
        /\ lastGet.err = "nil"
        /\ lastGet.cmd = lruValue(lastGet.before,
                                  DigestString(lastGet.ref.repo, lastGet.ref.id))
        /\ lastGet.digest = DigestString(lastGet.ref.repo, lastGet.ref.id)

\* A Get that failed left the cache as it was.
FailedGetKeepsCache ==
    (lastGet.kind = "get" /\ lastGet.err # "nil") => lru = lastGet.before

\* C23 (as stated): the cache holds an entry for a digest only after a
\* lookup in the registry that resolved to that digest succeeded; a Get for
\* a digest reference whose digest is cached returns the cached entrypoint
\* without contacting the registry; a Get for a tag reference always
\* contacts the registry; a Get that fails leaves the cache unchanged.
EntrypointCacheAlwaysContacts ==
    /\ CachedAfterLookup
    /\ CachedDigestAnswered
    /\ (lastGet.kind = "get" /\ lastGet.ref.kind = "tag") => lastGet.contacted
    /\ FailedGetKeepsCache

\* C23 (amended): as above, but a Get for a tag reference is never answered
\* from the cache: it contacts the registry unless creating the keychain
\* fails first, and then it returns that error, an empty entrypoint and
\* leaves the cache unchanged.
EntrypointCache ==
    /\ CachedAfterLookup
    /\ CachedDigestAnswered
    /\ (lastGet.kind = "get" /\ lastGet.ref.kind = "tag") =>
          /\ ~lastGet.hit
          /\ lastGet.contacted \/ lastGet.err = "keychain"
          /\ lastGet.err = "keychain" =>
                /\ ~lastGet.contacted
                /\ lastGet.cmd = << >>
                /\ lru = lastGet.before
          /\ lastGet.err = "nil" =>
                /\ lastGet.cmd = EntrypointOf(lastGet.registry[lastGet.ref.repo])
                /\ lastGet.digest = DigestString(lastGet.ref.repo,
                                                 lastGet.registry[lastGet.ref.repo])
    /\ FailedGetKeepsCache

\* A Get for a tag whose image is in the cache failed at the keychain: it
\* was not answered from the cache, did not contact the registry, and the
\* cache, which earlier lookups filled, is as it was.
EntrypointCacheWitness ==
    /\ lastGet.kind = "get"
    /\ lastGet.ref.kind = "tag"
    /\ lastGet.err = "keychain"
    /\ ~lastGet.contacted
    /\ pushes > 0
    /\ Len(lru) >= 2
    /\ DigestString(lastGet.ref.repo, registry[lastGet.ref.repo]) \in lruKeys(lru)

====
